---- MODULE Spec2Model ----
(***************************************************************************)
(* Model of the two example programs of bevy_networking_turbulence:        *)
(*   examples/idle_timeout.rs  the bounded variant (ping/pong reservoirs)  *)
(*   examples/simple.rs        the unbounded variant (time-gated pings)    *)
(* Each bevy system (startup, send_pings, send_pongs, send_packets,        *)
(* handle_packets) is one action; the calls it makes on NetworkResource    *)
(* and the log lines it writes are recorded, in program order, in `out`.   *)
(***************************************************************************)
EXTENDS Integers, Sequences, FiniteSets, TLC

\* ------------------------------------------------------------------ bounds
\* Largest value of the command line's ping and pong counts.
MaxBudget == 3
\* Largest number of NetworkEvents an EventReader hands to one invocation.
MaxBatch == 1

\* ------------------------------------------------------------ byte strings
\* A Packet is a sequence of bytes; a String is a sequence of code points.
Min(a, b) == IF a < b THEN a ELSE b
Max(a, b) == IF a < b THEN b ELSE a

\* U+FFFD, what from_utf8_lossy puts in place of an invalid sequence.
REPLACEMENT_CHARACTER == 65533

\* The string literals of the two programs, as code points.
STR_PING == <<80, 73, 78, 71>>
STR_PONG == <<80, 79, 78, 71>>

\* UTF-8 encoding of one code point (what Packet::from(&str) stores).
encode_utf8(c) ==
  IF c < 128 THEN <<c>>
  ELSE IF c < 2048 THEN <<192 + (c \div 64), 128 + (c % 64)>>
  ELSE IF c < 65536
    THEN <<224 + (c \div 4096), 128 + ((c \div 64) % 64), 128 + (c % 64)>>
  ELSE <<240 + (c \div 262144), 128 + ((c \div 4096) % 64),
         128 + ((c \div 64) % 64), 128 + (c % 64)>>

RECURSIVE PacketFrom(_)
\* Packet::from(s): the UTF-8 bytes of the string s.
PacketFrom(s) ==
  IF s = <<>> THEN <<>> ELSE encode_utf8(Head(s)) \o PacketFrom(Tail(s))

\* Length in bytes that the leading byte b announces (0: not a leading byte).
utf8_char_width(b) ==
  IF b < 128 THEN 1
  ELSE IF b >= 194 /\ b <= 223 THEN 2
  ELSE IF b >= 224 /\ b <= 239 THEN 3
  ELSE IF b >= 240 /\ b <= 244 THEN 4
  ELSE 0

\* The byte at position i, or 0 past the end.
safe_get(bs, i) == IF i <= Len(bs) THEN bs[i] ELSE 0

IsCont(b) == b >= 128 /\ b <= 191

\* The second byte a three- or four-byte sequence starting with b admits.
SecondOk(b, c) ==
  IF b = 224 THEN c >= 160 /\ c <= 191
  ELSE IF b = 237 THEN c >= 128 /\ c <= 159
  ELSE IF b = 240 THEN c >= 144 /\ c <= 191
  ELSE IF b = 244 THEN c >= 128 /\ c <= 143
  ELSE IsCont(c)

\* One decoding step at position i: the code point produced and the next
\* position.  An invalid sequence yields U+FFFD and skips its maximal prefix.
DecodeAt(bs, i) ==
  LET b == bs[i]
      w == utf8_char_width(b)
      c2 == safe_get(bs, i + 1)
      c3 == safe_get(bs, i + 2)
      c4 == safe_get(bs, i + 3)
      bad(n) == [cp |-> REPLACEMENT_CHARACTER, next |-> i + n]
  IN  IF w = 1 THEN [cp |-> b, next |-> i + 1]
      ELSE IF w = 2 THEN
        IF IsCont(c2)
          THEN [cp |-> (b - 192) * 64 + (c2 - 128), next |-> i + 2]
          ELSE bad(1)
      ELSE IF w = 3 THEN
        IF ~SecondOk(b, c2) THEN bad(1)
        ELSE IF ~IsCont(c3) THEN bad(2)
        ELSE [cp |-> (b - 224) * 4096 + (c2 - 128) * 64 + (c3 - 128),
              next |-> i + 3]
      ELSE IF w = 4 THEN
        IF ~SecondOk(b, c2) THEN bad(1)
        ELSE IF ~IsCont(c3) THEN bad(2)
        ELSE IF ~IsCont(c4) THEN bad(3)
        ELSE [cp |-> (b - 240) * 262144 + (c2 - 128) * 4096
                       + (c3 - 128) * 64 + (c4 - 128),
              next |-> i + 4]
      ELSE bad(1)

RECURSIVE DecodeFrom(_, _)
DecodeFrom(bs, i) ==
  IF i > Len(bs) THEN <<>>
  ELSE LET d == DecodeAt(bs, i) IN <<d.cp>> \o DecodeFrom(bs, d.next)

\* Payloads a peer may put on the wire: "PING", "X", "PING" followed by the
\* byte 0xFF (not valid UTF-8), "PONG", "ping" and "PINGX".
PayloadPing == PacketFrom(STR_PING)
PayloadX == <<88>>
PayloadPingFF == PacketFrom(STR_PING) \o <<255>>
PayloadPong == PacketFrom(STR_PONG)
PayloadPingLower == <<112, 105, 110, 103>>
PayloadPingX == PacketFrom(STR_PING) \o <<88>>
Payloads ==
  {PayloadPing, PayloadX, PayloadPingFF, PayloadPong, PayloadPingLower,
   PayloadPingX}

\* The decoding of the payloads above, computed once.
Decoded == [bs \in Payloads |-> DecodeFrom(bs, 1)]

\* String::from_utf8_lossy(packet)
from_utf8_lossy(bs) == IF bs \in Payloads THEN Decoded[bs] ELSE DecodeFrom(bs, 1)

\* ------------------------------------------------------------------ inputs
\* ConnectionHandles of the peers an endpoint talks to.
Peers == {"A", "B"}

\* NetworkEvent, the enum an EventReader<NetworkEvent> yields.
Packet(h, bytes) == [tag |-> "Packet", handle |-> h, packet |-> bytes]
Connected(h) == [tag |-> "Connected", handle |-> h, packet |-> <<>>]
Disconnected(h) == [tag |-> "Disconnected", handle |-> h, packet |-> <<>>]

NetworkEvents ==
  { Packet("A", PayloadPing), Packet("B", PayloadPing), Packet("A", PayloadX),
    Packet("B", PayloadPingFF), Connected("B") }

RECURSIVE SeqsUpTo(_, _)
\* All sequences over S of length at most n.
SeqsUpTo(S, n) ==
  IF n = 0 THEN {<<>>}
  ELSE LET shorter == SeqsUpTo(S, n - 1)
       IN  shorter \cup {Append(q, e) : q \in {x \in shorter : Len(x) = n - 1}, e \in S}

\* Longer batches: the one of the specification's event-ordering property,
\* and one peer delivering the same PING twice.
ExampleBatch ==
  <<Packet("A", PayloadPing), Packet("B", PayloadPing), Packet("A", PayloadX)>>
TwiceBatch == <<Packet("A", PayloadPing), Packet("A", PayloadPing)>>

\* The event batches one invocation of a packet handler may be handed: every
\* batch of at most MaxBatch events, and the two above.
Batches == SeqsUpTo(NetworkEvents, MaxBatch) \cup {ExampleBatch, TwiceBatch}

\* The peers a batch holds a PING packet of: those a send may be addressed to.
Senders(batch) ==
  {batch[i].handle : i \in {j \in 1..Len(batch) :
                               /\ batch[j].tag = "Packet"
                               /\ from_utf8_lossy(batch[j].packet) = STR_PING}}

\* --------------------------------------------------------- recorded effects
\* One call on NetworkResource or one log line.
Effect(kind, h, m) == [kind |-> kind, handle |-> h, msg |-> m]
NoHandle == "-"

\* Number of effects of the given kind in a trace.
Count(tr, kind) == Cardinality({i \in 1..Len(tr) : tr[i].kind = kind})

\* ---------------------------------------------------------------- handlers
\* Each handler is a function of what it reads to what it writes: the new
\* value of the state it owns and the trace of its calls and log lines.

\* Variant of startup: the role test before connect is dropped.
startup_connects_always(is_server, ip_found) ==
  IF ~ip_found THEN [panicked |-> TRUE, out |-> <<Effect("panic", NoHandle, <<>>)>>]
  ELSE [panicked |-> FALSE,
        out |-> (IF is_server
                   THEN <<Effect("log_starting_server", NoHandle, <<>>),
                          Effect("listen", NoHandle, <<>>)>>
                   ELSE <<>>)
                \o <<Effect("log_starting_client", NoHandle, <<>>),
                     Effect("connect", NoHandle, <<>>)>>]

\* idle_timeout.rs, startup, as built for a native target (the wasm32 branch
\* stops the build with compile_error!): ip_found is whether
\* find_my_ip_address() returned an address; otherwise expect panics with
\* "can't find ip address" and nothing after it runs.
startup_idle_timeout(is_server, ip_found) ==
  IF ~ip_found THEN [panicked |-> TRUE, out |-> <<Effect("panic", NoHandle, <<>>)>>]
  ELSE [panicked |-> FALSE,
        out |-> (IF is_server
                   THEN <<Effect("log_starting_server", NoHandle, <<>>),
                          Effect("listen", NoHandle, <<>>)>>
                   ELSE <<>>)
                \o
                (IF ~is_server
                   THEN <<Effect("log_starting_client", NoHandle, <<>>),
                          Effect("connect", NoHandle, <<>>)>>
                   ELSE <<>>)]

\* Variant of startup: the address is looked up after the role's call.
startup_simple_late_lookup(is_server, ip_found) ==
  LET calls == (IF is_server
                  THEN <<Effect("log_starting_server", NoHandle, <<>>),
                         Effect("listen", NoHandle, <<>>)>>
                  ELSE <<>>)
               \o
               (IF ~is_server
                  THEN <<Effect("log_starting_client", NoHandle, <<>>),
                         Effect("connect", NoHandle, <<>>)>>
                  ELSE <<>>)
  IN  IF ~ip_found
        THEN [panicked |-> TRUE,
              out |-> calls \o <<Effect("panic", NoHandle, <<>>)>>]
        ELSE [panicked |-> FALSE, out |-> calls]

\* simple.rs, startup.
startup_simple(is_server, ip_found) ==
  IF ~ip_found THEN [panicked |-> TRUE, out |-> <<Effect("panic", NoHandle, <<>>)>>]
  ELSE [panicked |-> FALSE,
        out |-> (IF is_server
                   THEN <<Effect("log_starting_server", NoHandle, <<>>),
                          Effect("listen", NoHandle, <<>>)>>
                   ELSE <<>>)
                \o
                (IF ~is_server
                   THEN <<Effect("log_starting_client", NoHandle, <<>>),
                          Effect("connect", NoHandle, <<>>)>>
                   ELSE <<>>)]

\* Variant of send_pings: the decrement is dropped.
send_pings_no_decrement(c) ==
  IF c.ping_reservoir = 0 THEN [ppc |-> c, out |-> <<>>]
  ELSE [ppc |-> c,
        out |-> <<Effect("broadcast", NoHandle, PacketFrom(STR_PING))>>]

\* Variant of send_pings: the diagnostic is also written on the early return.
send_pings_logs_when_empty(c) ==
  IF c.ping_reservoir = 0
    THEN [ppc |-> c, out |-> <<Effect("log_no_more_pings", NoHandle, <<>>)>>]
  ELSE LET c1 == [c EXCEPT !.ping_reservoir = c.ping_reservoir - 1]
       IN  [ppc |-> c1,
            out |-> <<Effect("broadcast", NoHandle, PacketFrom(STR_PING))>>
                    \o (IF c1.ping_reservoir = 0
                          THEN <<Effect("log_no_more_pings", NoHandle, <<>>)>>
                          ELSE <<>>)]

\* Variant of send_pings: the test for an empty reservoir is dropped.
send_pings_unguarded(c) ==
  LET c1 == [c EXCEPT !.ping_reservoir = c.ping_reservoir - 1]
  IN  [ppc |-> c1,
       out |-> <<Effect("broadcast", NoHandle, PacketFrom(STR_PING))>>
               \o (IF c1.ping_reservoir = 0
                     THEN <<Effect("log_no_more_pings", NoHandle, <<>>)>>
                     ELSE <<>>)]

\* Variant of send_pings: a broadcast also takes 1 from the pong reservoir.
send_pings_shared_budget(c) ==
  IF c.ping_reservoir = 0 THEN [ppc |-> c, out |-> <<>>]
  ELSE LET c1 == [ping_reservoir |-> c.ping_reservoir - 1,
                  pong_reservoir |-> Max(c.pong_reservoir - 1, 0)]
       IN  [ppc |-> c1,
            out |-> <<Effect("broadcast", NoHandle, PacketFrom(STR_PING))>>
                    \o (IF c1.ping_reservoir = 0
                          THEN <<Effect("log_no_more_pings", NoHandle, <<>>)>>
                          ELSE <<>>)]

\* idle_timeout.rs, send_pings, on the counter c (a PingPongCounter).  The
\* reservoirs are usize; the decrement is reached only on a value above 0.
send_pings_on(c) ==
  IF c.ping_reservoir = 0 THEN [ppc |-> c, out |-> <<>>]
  ELSE LET c1 == [c EXCEPT !.ping_reservoir = c.ping_reservoir - 1]
       IN  [ppc |-> c1,
            out |-> <<Effect("broadcast", NoHandle, PacketFrom(STR_PING))>>
                    \o (IF c1.ping_reservoir = 0
                          THEN <<Effect("log_no_more_pings", NoHandle, <<>>)>>
                          ELSE <<>>)]

\* The result of net.send(handle, ..): an error for the handles in `down`.
SendEffects(h, bytes, down, errkind) ==
  <<Effect("send", h, bytes),
    IF h \in down THEN Effect(errkind, h, <<>>)
                  ELSE Effect("log_sent_pong", h, <<>>)>>

\* Variant of the loop body: the send that empties the reservoir also writes
\* the "No pongs left to send." line.
send_pongs_event_logs_at_zero(c, event, down) ==
  IF event.tag = "Packet" THEN
    LET message == from_utf8_lossy(event.packet)
        got == <<Effect("log_got_packet", event.handle, message)>>
    IN  IF message = STR_PING THEN
          IF c.pong_reservoir > 0
            THEN [ppc |-> [c EXCEPT !.pong_reservoir = c.pong_reservoir - 1],
                  out |-> got \o SendEffects(event.handle, PacketFrom(STR_PONG),
                                             down, "log_pong_send_error")
                          \o (IF c.pong_reservoir = 1
                                THEN <<Effect("log_no_pongs_left", NoHandle, <<>>)>>
                                ELSE <<>>)]
            ELSE [ppc |-> c, out |-> <<>>]
        ELSE [ppc |-> c, out |-> got]
  ELSE [ppc |-> c, out |-> <<Effect("log_other_event", event.handle, <<>>)>>]

\* Variant of the loop body: the reservoir test is >= 0 instead of > 0.
send_pongs_event_at_zero(c, event, down) ==
  IF event.tag = "Packet" THEN
    LET message == from_utf8_lossy(event.packet)
        got == <<Effect("log_got_packet", event.handle, message)>>
    IN  IF message = STR_PING THEN
          IF c.pong_reservoir >= 0
            THEN [ppc |-> [c EXCEPT !.pong_reservoir = c.pong_reservoir - 1],
                  out |-> got \o SendEffects(event.handle, PacketFrom(STR_PONG),
                                             down, "log_pong_send_error")]
            ELSE [ppc |-> c,
                  out |-> got \o <<Effect("log_no_pongs_left", NoHandle, <<>>)>>]
        ELSE [ppc |-> c, out |-> got]
  ELSE [ppc |-> c, out |-> <<Effect("log_other_event", event.handle, <<>>)>>]

\* Variant of the loop body: the payload is compared with
\* eq_ignore_ascii_case.
send_pongs_event_ignore_case(c, event, down) ==
  IF event.tag = "Packet" THEN
    LET message == from_utf8_lossy(event.packet)
        upper == [i \in 1..Len(message) |->
                    IF message[i] \in 97..122 THEN message[i] - 32
                                              ELSE message[i]]
        got == <<Effect("log_got_packet", event.handle, message)>>
    IN  IF upper = STR_PING THEN
          IF c.pong_reservoir > 0
            THEN [ppc |-> [c EXCEPT !.pong_reservoir = c.pong_reservoir - 1],
                  out |-> got \o SendEffects(event.handle, PacketFrom(STR_PONG),
                                             down, "log_pong_send_error")]
            ELSE [ppc |-> c,
                  out |-> got \o <<Effect("log_no_pongs_left", NoHandle, <<>>)>>]
        ELSE [ppc |-> c, out |-> got]
  ELSE [ppc |-> c, out |-> <<Effect("log_other_event", event.handle, <<>>)>>]

\* Variant of the loop body: the reservoir is decremented in the Ok arm of
\* the send only.
send_pongs_event_refunds(c, event, down) ==
  IF event.tag = "Packet" THEN
    LET message == from_utf8_lossy(event.packet)
        got == <<Effect("log_got_packet", event.handle, message)>>
    IN  IF message = STR_PING THEN
          IF c.pong_reservoir > 0
            THEN [ppc |-> IF event.handle \in down THEN c
                          ELSE [c EXCEPT !.pong_reservoir = c.pong_reservoir - 1],
                  out |-> got \o SendEffects(event.handle, PacketFrom(STR_PONG),
                                             down, "log_pong_send_error")]
            ELSE [ppc |-> c,
                  out |-> got \o <<Effect("log_no_pongs_left", NoHandle, <<>>)>>]
        ELSE [ppc |-> c, out |-> got]
  ELSE [ppc |-> c, out |-> <<Effect("log_other_event", event.handle, <<>>)>>]

\* Variant of the loop body: a "PONG" is answered like a "PING".
send_pongs_event_answers_pong(c, event, down) ==
  IF event.tag = "Packet" THEN
    LET message == from_utf8_lossy(event.packet)
        got == <<Effect("log_got_packet", event.handle, message)>>
    IN  IF message = STR_PING \/ message = STR_PONG THEN
          IF c.pong_reservoir > 0
            THEN [ppc |-> [c EXCEPT !.pong_reservoir = c.pong_reservoir - 1],
                  out |-> got \o SendEffects(event.handle, PacketFrom(STR_PONG),
                                             down, "log_pong_send_error")]
            ELSE [ppc |-> c,
                  out |-> got \o <<Effect("log_no_pongs_left", NoHandle, <<>>)>>]
        ELSE [ppc |-> c, out |-> got]
  ELSE [ppc |-> c, out |-> <<Effect("log_other_event", event.handle, <<>>)>>]

\* idle_timeout.rs, send_pongs: the body of the loop, for one event.
send_pongs_event(c, event, down) ==
  IF event.tag = "Packet" THEN
    LET message == from_utf8_lossy(event.packet)
        got == <<Effect("log_got_packet", event.handle, message)>>
    IN  IF message = STR_PING THEN
          IF c.pong_reservoir > 0
            THEN [ppc |-> [c EXCEPT !.pong_reservoir = c.pong_reservoir - 1],
                  out |-> got \o SendEffects(event.handle, PacketFrom(STR_PONG),
                                             down, "log_pong_send_error")]
            ELSE [ppc |-> c,
                  out |-> got \o <<Effect("log_no_pongs_left", NoHandle, <<>>)>>]
        ELSE [ppc |-> c, out |-> got]
  ELSE [ppc |-> c, out |-> <<Effect("log_other_event", event.handle, <<>>)>>]

RECURSIVE send_pongs_last_first(_, _, _)
\* Variant of send_pongs: the batch is handled last event first.
send_pongs_last_first(c, batch, down) ==
  IF batch = <<>> THEN [ppc |-> c, out |-> <<>>]
  ELSE LET n == Len(batch)
           one == send_pongs_event(c, batch[n], down)
           rest == send_pongs_last_first(one.ppc, SubSeq(batch, 1, n - 1), down)
       IN  [ppc |-> rest.ppc, out |-> one.out \o rest.out]

RECURSIVE send_pongs_dedup(_, _, _)
\* Variant of send_pongs: an event equal to the one before it is skipped.
send_pongs_dedup(c, batch, down) ==
  IF batch = <<>> THEN [ppc |-> c, out |-> <<>>]
  ELSE LET one == send_pongs_event(c, Head(batch), down)
           tl == Tail(batch)
           rest == IF tl # <<>> /\ Head(tl) = Head(batch)
                     THEN send_pongs_dedup(one.ppc, Tail(tl), down)
                     ELSE send_pongs_dedup(one.ppc, tl, down)
       IN  [ppc |-> rest.ppc, out |-> one.out \o rest.out]

RECURSIVE send_pongs_stops_on_error(_, _, _)
\* Variant of send_pongs: the loop is left at the first failed send.
send_pongs_stops_on_error(c, batch, down) ==
  IF batch = <<>> THEN [ppc |-> c, out |-> <<>>]
  ELSE LET one == send_pongs_event(c, Head(batch), down)
           rest == IF Count(one.out, "log_pong_send_error") > 0
                     THEN [ppc |-> one.ppc, out |-> <<>>]
                     ELSE send_pongs_stops_on_error(one.ppc, Tail(batch), down)
       IN  [ppc |-> rest.ppc, out |-> one.out \o rest.out]

RECURSIVE send_pongs_on(_, _, _)
\* idle_timeout.rs, send_pongs: the loop over reader.iter(), first to last.
send_pongs_on(c, batch, down) ==
  IF batch = <<>> THEN [ppc |-> c, out |-> <<>>]
  ELSE LET one == send_pongs_event(c, Head(batch), down)
           rest == send_pongs_on(one.ppc, Tail(batch), down)
       IN  [ppc |-> rest.ppc, out |-> one.out \o rest.out]

\* Number of Packet events of a batch whose decoded payload is "PING".
PingEvents(batch) ==
  Cardinality({i \in 1..Len(batch) :
                 /\ batch[i].tag = "Packet"
                 /\ from_utf8_lossy(batch[i].packet) = STR_PING})

\* simple.rs reads Time::seconds_since_startup(), an f64.  The run loop of
\* main waits 1/60 s per frame; the model's clock readings are the f64
\* values n/60, n the number of sixtieths of a second since startup.
RECURSIVE Digits(_)
\* The decimal digits of a natural number, as code points.
Digits(n) ==
  IF n < 10 THEN <<48 + n>> ELSE Digits(n \div 10) \o <<48 + (n % 10)>>

RECURSIVE Expansion(_, _)
\* The first k digits after the point of r/60, for r < 60.
Expansion(r, k) ==
  IF k = 0 THEN <<>>
  ELSE <<(r * 10) \div 60>> \o Expansion((r * 10) % 60, k - 1)

\* Display of an f64 writes the shortest decimal that reads back as the same
\* f64.  For the f64 nearest to n/60, n = 0, 1, ..: the number of digits after
\* the point (0 for a whole number) ...
FractionDigits ==
  <<
    0, 18, 17, 2, 17, 17, 1, 17, 17, 2, 17, 17, 1, 17, 17, 2, 17, 16, 1, 17,
    16, 2, 17, 17, 1, 16, 17, 2, 16, 17, 1, 16, 16, 2, 16, 16, 1, 16, 16, 2,
    16, 16, 1, 16, 16, 2, 16, 16, 1, 16, 16, 2, 16, 16, 1, 16, 16, 2, 16,
    16, 0, 16, 16, 2, 16, 16, 1, 16, 16, 2, 16, 16, 1, 16, 16, 2, 16, 16, 1,
    16, 16, 2, 16, 16, 1, 16, 16, 2, 16, 16, 1, 16, 16, 2, 16, 16, 1, 16,
    16, 2, 16, 16, 1, 16, 16, 2, 16, 16, 1, 16, 16, 2, 16, 16, 1, 16, 16, 2,
    16, 16, 0, 16, 15, 2, 15, 16, 1, 16, 16, 2, 16, 15, 1, 15, 16, 2, 16,
    15, 1, 15, 16, 2, 16, 16, 1, 16, 15, 2, 15, 16, 1, 16, 15, 2, 15, 16, 1,
    16, 16, 2, 16, 15, 1, 15, 16, 2, 16, 15, 1, 15, 16, 2, 16, 16, 1, 16,
    15, 2, 15, 16, 0, 16, 15, 2, 15, 16, 1, 16, 16, 2, 16, 15, 1, 15, 16, 2,
    16, 15, 1, 15, 16
  >>

\* ... and what the last of these digits is above the digit of the
\* expansion of n/60 at that place (the f64 is not n/60 exactly).
LastDigitShift ==
  <<
    0, 0, 0, 0, 1, 0, 0, 1, 0, 0, 0, -1, 0, 1, 1, 0, 0, 0, 0, -1, 0, 0, -2,
    3, 0, 1, 2, 0, 1, 1, 0, 1, 0, 0, 1, 1, 0, 1, 0, 0, 0, 0, 0, 1, 0, 0, 1,
    0, 0, 1, 1, 0, 1, 0, 0, 0, 0, 0, 1, 0, 0, 0, 1, 0, 1, 0, 0, 1, 0, 0, 1,
    0, 0, 0, 1, 0, 0, 1, 0, 1, 0, 0, 1, 0, 0, 1, 0, 0, 0, 1, 0, 0, 1, 0, 1,
    0, 0, 1, 0, 0, 1, 0, 0, 0, 1, 0, 0, 1, 0, 1, 0, 0, 1, 0, 0, 1, 0, 0, 0,
    1, 0, 0, 0, 0, 1, 2, 0, 1, 0, 0, -1, 0, 0, 1, 1, 0, 0, 0, 0, 1, 2, 0, 1,
    0, 0, -1, 0, 0, 1, 1, 0, 0, 0, 0, 1, 2, 0, 1, 0, 0, -1, 0, 0, 1, 1, 0,
    0, 0, 0, 1, 2, 0, 1, 0, 0, -1, 0, 0, 1, 1, 0, 0, 0, 0, 1, 2, 0, 1, 0, 0,
    -1, 0, 0, 1, 1, 0, 0, 0, 0, 1, 2
  >>

\* The clock readings the two tables cover.
Readings == 0..(Len(FractionDigits) - 1)

\* format!("{}", t) for the f64 t nearest to n/60, computed once per reading.
Displayed ==
  [n \in Readings |->
     LET d == FractionDigits[n + 1]
         e == Expansion(n % 60, d)
     IN  Digits(n \div 60)
         \o (IF d = 0 THEN <<>>
             ELSE <<46>> \o [i \in 1..d |->
                               48 + e[i]
                               + (IF i = d THEN LastDigitShift[n + 1] ELSE 0)])]

format_f64(n) == Displayed[n]

\* "PONG @ "
STR_PONG_AT == <<80, 79, 78, 71, 32, 64, 32>>

\* The readings n for which the f64 product (n/60) * 60. lies just below n.
RoundsBelow == {123}

\* (t * 60.) as i64 for the f64 t nearest to n/60: the product, truncated.
mul60_as_i64(n) == IF n \in RoundsBelow THEN n - 1 ELSE n

\* (time.seconds_since_startup() * 60.) as i64 % 60 == 0
cadence(n) == mul60_as_i64(n) % 60 = 0

\* Variant of send_packets: the role test is dropped.
send_packets_any_role(is_server, q) ==
  IF cadence(q)
    THEN <<Effect("log_ping", NoHandle, <<>>),
           Effect("broadcast", NoHandle, PacketFrom(STR_PING))>>
    ELSE <<>>

\* simple.rs, send_packets.
send_packets_on(is_server, q) ==
  IF ~is_server
    THEN IF cadence(q)
           THEN <<Effect("log_ping", NoHandle, <<>>),
                  Effect("broadcast", NoHandle, PacketFrom(STR_PING))>>
           ELSE <<>>
    ELSE <<>>

\* Variant of the loop body: the test is message.starts_with("PING").
handle_packets_event_prefix(q, event, down) ==
  IF event.tag = "Packet" THEN
    LET message == from_utf8_lossy(event.packet)
        got == <<Effect("log_got_packet", event.handle, message)>>
    IN  IF Len(message) >= 4 /\ SubSeq(message, 1, 4) = STR_PING
          THEN got \o SendEffects(event.handle,
                                  PacketFrom(STR_PONG_AT \o format_f64(q)),
                                  down, "log_pong_send_error")
          ELSE got
  ELSE <<>>

\* Variant of the loop body: the PONG goes out with net.broadcast.
handle_packets_event_broadcasts(q, event, down) ==
  IF event.tag = "Packet" THEN
    LET message == from_utf8_lossy(event.packet)
        got == <<Effect("log_got_packet", event.handle, message)>>
    IN  IF message = STR_PING
          THEN got \o <<Effect("broadcast", NoHandle,
                               PacketFrom(STR_PONG_AT \o format_f64(q))),
                        Effect("log_sent_pong", event.handle, <<>>)>>
          ELSE got
  ELSE <<>>

\* simple.rs, handle_packets: the body of the loop, for one event.
handle_packets_event(q, event, down) ==
  IF event.tag = "Packet" THEN
    LET message == from_utf8_lossy(event.packet)
        got == <<Effect("log_got_packet", event.handle, message)>>
    IN  IF message = STR_PING
          THEN got \o SendEffects(event.handle,
                                  PacketFrom(STR_PONG_AT \o format_f64(q)),
                                  down, "log_pong_send_error")
          ELSE got
  ELSE <<>>

RECURSIVE handle_packets_on(_, _, _)
\* simple.rs, handle_packets: the loop over reader.iter(), first to last.
handle_packets_on(q, batch, down) ==
  IF batch = <<>> THEN <<>>
  ELSE handle_packets_event(q, Head(batch), down)
       \o handle_packets_on(q, Tail(batch), down)

\* ------------------------------------------------------------------- state
VARIABLES
  example,      \* which program runs: "idle_timeout" or "simple"
  args,         \* the parsed command line (Args)
  ppc,          \* the PingPongCounter resource
  pc,           \* "startup" before the startup system, then "running"; "panicked"
  time,         \* Time::seconds_since_startup(), in sixtieths of a second
  frame,        \* simple.rs: number of frames completed so far
  ran,          \* simple.rs: the systems that already ran in the current frame
  last,         \* the system that ran last
  events,       \* the batch its EventReader yielded (<<>> when it has none)
  out,          \* the calls and log lines of that run, in program order
  total,        \* per kind, the number of calls and log lines so far
  invoked,      \* number of runs of send_pings so far
  ping_events,  \* number of "PING" packet events handled so far
  ends,         \* two connected endpoints of idle_timeout.rs, per endpoint
  wire,         \* per endpoint, the packets in flight towards it
  plast         \* the last run of a system at one of the two endpoints

\* The state of one program, and that of the two connected endpoints.
one == <<example, args, ppc, pc, time, frame, ran, last, events, out, total, invoked, ping_events>>
pair == <<ends, wire, plast>>

vars ==
  <<example, args, ppc, pc, time, frame, ran, last, events, out, total, invoked,
    ping_events, ends, wire, plast>>

\* Further bounds of the exploration.
\* Runs of send_pings, and PING events, explored past the initial budget.
Extra == 1
\* Number of frame changes of simple.rs explored.
MaxFrames == 3
\* Largest initial budget of each of the two connected endpoints.
PairBudget == 1

TotalKinds ==
  {"listen", "connect", "broadcast", "send", "log_no_more_pings", "log_no_pongs_left"}

\* The totals after a run that left the trace tr.
Tally(t, tr) == [k \in TotalKinds |-> t[k] + Count(tr, k)]

Systems == {"send_packets", "handle_packets"}

\* main of idle_timeout.rs: the counter is built from the command line.
InitIdleTimeout ==
  /\ example = "idle_timeout"
  /\ \E s \in BOOLEAN, p \in 0..MaxBudget, q \in 0..MaxBudget :
       /\ args = [is_server |-> s, pings |-> p, pongs |-> q]
       /\ ppc = [ping_reservoir |-> p, pong_reservoir |-> q]

\* main of simple.rs: no counter, the command line holds only the role.
InitSimple ==
  /\ example = "simple"
  /\ \E s \in BOOLEAN : args = [is_server |-> s, pings |-> 0, pongs |-> 0]
  /\ ppc = [ping_reservoir |-> 0, pong_reservoir |-> 0]

\* The two endpoints: 1 is started as the server, 2 as the client.
Endpoints == {1, 2}
Other(i) == 3 - i

\* The handle under which an endpoint knows its one connection.
PeerHandle == "A"

\* An endpoint after main built its counter from the budgets p and q.
Endpoint(s, p, q) ==
  [is_server |-> s, pings |-> p, pongs |-> q,
   ppc |-> [ping_reservoir |-> p, pong_reservoir |-> q],
   ticks |-> 0, broadcasts |-> 0, sends |-> 0, put |-> 0]

\* The texts the two endpoints put on the wire, and a wire with nothing in
\* flight: per payload, the number of packets in flight.
WirePayloads == {PayloadPing, PayloadPong}
EmptyWire == [p \in WirePayloads |-> 0]
NoRun == [who |-> 0, sys |-> "none", batch |-> <<>>, out |-> <<>>]

\* The two endpoints are not part of the run of one program.
PairAtRest ==
  /\ ends = [i \in Endpoints |-> Endpoint(i = 1, 0, 0)]
  /\ wire = [i \in Endpoints |-> EmptyWire]
  /\ plast = NoRun

Init ==
  /\ PairAtRest
  /\ InitIdleTimeout \/ InitSimple
  /\ pc = "startup"
  /\ time = 0
  /\ frame = 0
  /\ ran = {}
  /\ last = "none"
  /\ events = <<>>
  /\ out = <<>>
  /\ total = [k \in TotalKinds |-> 0]
  /\ invoked = 0
  /\ ping_events = 0

\* ----------------------------------------------------------------- actions
\* The startup system of either program; it runs once, before any other.
startup ==
  /\ pc = "startup"
  /\ \E ip_found \in BOOLEAN :
       LET r == IF example = "idle_timeout"
                  THEN startup_idle_timeout(args.is_server, ip_found)
                  ELSE startup_simple(args.is_server, ip_found)
       IN  /\ pc' = IF r.panicked THEN "panicked" ELSE "running"
           /\ out' = r.out
           /\ total' = Tally(total, r.out)
  /\ last' = "startup"
  /\ events' = <<>>
  /\ UNCHANGED <<example, args, ppc, time, ran, invoked, ping_events>>
  /\ UNCHANGED <<frame, pair>>

\* idle_timeout.rs: one run of send_pings (FixedTimestep, once a second).
send_pings ==
  /\ example = "idle_timeout"
  /\ pc = "running"
  /\ invoked < args.pings + Extra
  /\ LET r == send_pings_on(ppc)
     IN  /\ ppc' = r.ppc
         /\ out' = r.out
         /\ total' = Tally(total, r.out)
  /\ invoked' = invoked + 1
  /\ last' = "send_pings"
  /\ events' = <<>>
  /\ UNCHANGED <<example, args, pc, time, ran, ping_events>>
  /\ UNCHANGED <<frame, pair>>

\* idle_timeout.rs: one run of send_pongs on the events since its last run;
\* the sends to the peers in `down` fail.
send_pongs_run(batch, down) ==
  /\ example = "idle_timeout"
  /\ pc = "running"
  /\ ping_events + PingEvents(batch) <= args.pongs + Extra
  /\ LET r == send_pongs_on(ppc, batch, down)
     IN  /\ ppc' = r.ppc
         /\ out' = r.out
         /\ total' = Tally(total, r.out)
  /\ ping_events' = ping_events + PingEvents(batch)
  /\ events' = batch
  /\ last' = "send_pongs"
  /\ UNCHANGED <<example, args, pc, time, ran, invoked>>
  /\ UNCHANGED <<frame, pair>>

send_pongs ==
  \E batch \in Batches : \E down \in SUBSET Senders(batch) :
    send_pongs_run(batch, down)

\* simple.rs: one run of send_packets, once per frame.
send_packets ==
  /\ example = "simple"
  /\ pc = "running"
  /\ "send_packets" \notin ran
  /\ LET tr == send_packets_on(args.is_server, time)
     IN  /\ out' = tr
         /\ total' = Tally(total, tr)
  /\ ran' = ran \cup {"send_packets"}
  /\ last' = "send_packets"
  /\ events' = <<>>
  /\ UNCHANGED <<example, args, ppc, pc, time, invoked, ping_events>>
  /\ UNCHANGED <<frame, pair>>

\* simple.rs: one run of handle_packets, once per frame, on the events since
\* its last run; the sends to the peers in `down` fail.
handle_packets_run(batch, down) ==
  /\ example = "simple"
  /\ pc = "running"
  /\ "handle_packets" \notin ran
  /\ LET tr == handle_packets_on(time, batch, down)
     IN  /\ out' = tr
         /\ total' = Tally(total, tr)
  /\ ping_events' = ping_events + PingEvents(batch)
  /\ events' = batch
  /\ ran' = ran \cup {"handle_packets"}
  /\ last' = "handle_packets"
  /\ UNCHANGED <<example, args, ppc, pc, time, invoked>>
  /\ UNCHANGED <<frame, pair>>

handle_packets ==
  \E batch \in Batches : \E down \in SUBSET Senders(batch) :
    handle_packets_run(batch, down)

\* The time a frame takes, in sixtieths of a second: the 1/60 s the run loop
\* waits, or half a second when the process is held up.
FrameSteps == {1, 30}

\* simple.rs: the frame ends and the clock advances to the next frame.
next_frame ==
  /\ example = "simple"
  /\ pc = "running"
  /\ ran = Systems
  /\ frame < MaxFrames
  /\ \E d \in FrameSteps : time' = time + d
  /\ frame' = frame + 1
  /\ ran' = {}
  /\ UNCHANGED <<example, args, ppc, pc, last, events, out, total, invoked,
                 ping_events>>
  /\ UNCHANGED pair

Next ==
  \/ startup
  \/ send_pings
  \/ send_pongs
  \/ send_packets
  \/ handle_packets
  \/ next_frame

Spec == Init /\ [][Next]_vars

\* A run of send_pongs on a batch that holds one PING packet, from peer A.
ping_arrives == send_pongs_run(<<Packet("A", PayloadPing)>>, {})

\* idle_timeout.rs alone, its events handed over one at a time.
FairInit == Init /\ example = "idle_timeout"

send_pongs_single ==
  \E batch \in SeqsUpTo(NetworkEvents, 1) : \E down \in SUBSET Senders(batch) :
    send_pongs_run(batch, down)

FairNext ==
  \/ startup
  \/ send_pings
  \/ send_pongs_single

\* The scheduler runs the startup system, then send_pings once a second for
\* ever; PING packets keep arriving from peer A.
FairSpec ==
  /\ FairInit
  /\ [][FairNext]_vars
  /\ WF_vars(startup)
  /\ WF_vars(send_pings)
  /\ WF_vars(ping_arrives)

\* Every kind of event from every peer: a Packet with each payload of the
\* model, Connected and Disconnected.
AllEvents ==
  {Packet(h, p) : h \in Peers, p \in Payloads}
    \cup {Connected(h) : h \in Peers} \cup {Disconnected(h) : h \in Peers}

\* One run of a packet handler on one event of any kind.
send_pongs_any ==
  \E e \in AllEvents : \E down \in SUBSET Senders(<<e>>) :
    send_pongs_run(<<e>>, down)

handle_packets_any ==
  \E e \in AllEvents : \E down \in SUBSET Senders(<<e>>) :
    handle_packets_run(<<e>>, down)

EventNext ==
  \/ startup
  \/ send_pings
  \/ send_pongs_any
  \/ send_packets
  \/ handle_packets_any
  \/ next_frame

\* Both programs, all their systems; the packet handlers are handed single
\* events of every kind.
EventSpec == Init /\ [][EventNext]_vars

\* ------------------------------------------------- two connected endpoints
\* Two processes of idle_timeout.rs, connected to each other; what broadcast
\* and send do with a packet is the transport's part.

\* Number of occurrences of the payload p in a batch of payloads.
Occurs(batch, p) == Cardinality({k \in 1..Len(batch) : batch[k] = p})

\* The packets a run's calls put in flight: one per broadcast (the other
\* endpoint is the only connected peer) and one per send that did not fail.
InFlightFrom(tr, down) ==
  {k \in 1..Len(tr) :
     \/ tr[k].kind = "broadcast"
     \/ tr[k].kind = "send" /\ tr[k].handle \notin down}

\* The wire w after the calls of the trace tr.
OntoWire(w, tr, down) ==
  [p \in WirePayloads |->
     w[p] + Cardinality({k \in InFlightFrom(tr, down) : tr[k].msg = p})]

\* The wire w after the packets of a batch arrived.
OffWire(w, batch) == [p \in WirePayloads |-> w[p] - Occurs(batch, p)]

\* The events the transport yields for the packets of a batch.
Received(batch) == [k \in 1..Len(batch) |-> Packet(PeerHandle, batch[k])]

\* The single program is not part of the run of the two endpoints.
OneAtRest ==
  /\ example = "idle_timeout"
  /\ args = [is_server |-> TRUE, pings |-> 0, pongs |-> 0]
  /\ ppc = [ping_reservoir |-> 0, pong_reservoir |-> 0]
  /\ pc = "startup"
  /\ time = 0
  /\ frame = 0
  /\ ran = {}
  /\ last = "none"
  /\ events = <<>>
  /\ out = <<>>
  /\ total = [k \in TotalKinds |-> 0]
  /\ invoked = 0
  /\ ping_events = 0

\* Both endpoints went through startup and are connected; nothing is in
\* flight yet.
PairInit ==
  /\ OneAtRest
  /\ \E p1 \in 0..PairBudget, q1 \in 0..PairBudget,
        p2 \in 0..PairBudget, q2 \in 0..PairBudget :
       ends = [i \in Endpoints |->
                 IF i = 1 THEN Endpoint(TRUE, p1, q1)
                          ELSE Endpoint(FALSE, p2, q2)]
  /\ wire = [i \in Endpoints |-> EmptyWire]
  /\ plast = NoRun

\* Variant of the scheduling of send_pings: its body is skipped on a server,
\* as in send_packets of simple.rs.
pair_send_pings_client_only(i) ==
  /\ ends[i].ticks < ends[i].pings + Extra
  /\ LET r == IF ends[i].is_server THEN [ppc |-> ends[i].ppc, out |-> <<>>]
                                   ELSE send_pings_on(ends[i].ppc)
         n == Count(r.out, "broadcast")
     IN  /\ ends' = [ends EXCEPT ![i].ppc = r.ppc,
                                 ![i].ticks = @ + 1,
                                 ![i].broadcasts = @ + n,
                                 ![i].put = @ + n]
         /\ wire' = [wire EXCEPT ![Other(i)] = OntoWire(@, r.out, {})]
         /\ plast' = [who |-> i, sys |-> "send_pings", batch |-> <<>>,
                      out |-> r.out]
  /\ UNCHANGED one

\* One run of send_pings at endpoint i; the system does not read the role.
pair_send_pings(i) ==
  /\ ends[i].ticks < ends[i].pings + Extra
  /\ LET r == send_pings_on(ends[i].ppc)
         n == Count(r.out, "broadcast")
     IN  /\ ends' = [ends EXCEPT ![i].ppc = r.ppc,
                                 ![i].ticks = @ + 1,
                                 ![i].broadcasts = @ + n,
                                 ![i].put = @ + n]
         /\ wire' = [wire EXCEPT ![Other(i)] = OntoWire(@, r.out, {})]
         /\ plast' = [who |-> i, sys |-> "send_pings", batch |-> <<>>,
                      out |-> r.out]
  /\ UNCHANGED one

\* One run of send_pongs at endpoint i on the packets of a batch that
\* arrived since its last run, in any order; the sends fail when the
\* connection is in `down`.
pair_send_pongs(i, batch, down) ==
  /\ batch # <<>>
  /\ \A p \in WirePayloads : Occurs(batch, p) <= wire[i][p]
  /\ LET r == send_pongs_on(ends[i].ppc, Received(batch), down)
         arrived == [wire EXCEPT ![i] = OffWire(@, batch)]
     IN  /\ ends' = [ends EXCEPT
                       ![i].ppc = r.ppc,
                       ![i].sends = @ + Count(r.out, "send"),
                       ![i].put = @ + Cardinality(InFlightFrom(r.out, down))]
         /\ wire' = [arrived EXCEPT ![Other(i)] = OntoWire(@, r.out, down)]
         /\ plast' = [who |-> i, sys |-> "send_pongs",
                      batch |-> Received(batch), out |-> r.out]
  /\ UNCHANGED one

pair_receive(i) ==
  \E batch \in SeqsUpTo(WirePayloads, MaxBatch) :
    \E down \in SUBSET {PeerHandle} : pair_send_pongs(i, batch, down)

\* The transport loses one of the packets in flight towards endpoint i.
pair_lose(i) ==
  /\ \E p \in WirePayloads :
       /\ wire[i][p] > 0
       /\ wire' = [wire EXCEPT ![i][p] = @ - 1]
  /\ plast' = [who |-> i, sys |-> "lose", batch |-> <<>>, out |-> <<>>]
  /\ UNCHANGED ends
  /\ UNCHANGED one

PairNext ==
  \E i \in Endpoints :
    \/ pair_send_pings(i)
    \/ pair_receive(i)
    \/ pair_lose(i)

PairSpec == PairInit /\ [][PairNext]_vars

\* A run of send_pings at endpoint i that finds a PING left to broadcast
\* (the other runs return at once), and a run of send_pongs on one packet.
pair_ping(i) ==
  /\ ends[i].ppc.ping_reservoir > 0
  /\ pair_send_pings(i)

pair_receive_one(i) ==
  \E p \in WirePayloads :
    \E down \in SUBSET {PeerHandle} : pair_send_pongs(i, <<p>>, down)

FairPairNext ==
  \E i \in Endpoints :
    \/ pair_ping(i)
    \/ pair_receive_one(i)
    \/ pair_lose(i)

\* The schedulers keep running send_pings (once a second) and send_pongs
\* (every frame) at both endpoints, and a packet in flight is lost or
\* arrives after a finite delay.
FairPairSpec ==
  /\ PairInit
  /\ [][FairPairNext]_vars
  /\ WF_vars(pair_ping(1))
  /\ WF_vars(pair_ping(2))
  /\ WF_vars(pair_receive_one(1) \/ pair_lose(1))
  /\ WF_vars(pair_receive_one(2) \/ pair_lose(2))

\* ------------------------------------------------------------- properties
Idle == example = "idle_timeout"
Simple == example = "simple"

\* C1: after k runs of send_pings from an initial ping budget P, the budget
\* is max(P - k, 0) and exactly min(k, P) PING broadcasts were made; from the
\* P-th run on the budget is 0 and no further broadcast is made.
C1_PingBudget ==
  Idle =>
    /\ ppc.ping_reservoir = Max(args.pings - invoked, 0)
    /\ total["broadcast"] = Min(invoked, args.pings)
    /\ (invoked >= args.pings => ppc.ping_reservoir = 0)

\* A budget of at least 2 was used up and send_pings ran once more.
C1_Witness ==
  /\ Idle
  /\ args.pings >= 2
  /\ invoked > args.pings
  /\ last = "send_pings"
  /\ out = <<>>
  /\ ppc.ping_reservoir = 0
  /\ total["broadcast"] = args.pings

\* C2: with initial pong budget Q and N PING packet events handled so far,
\* from any peers and in any batches, exactly min(Q, N) PONG sends were
\* attempted and each of the other N - min(Q, N) PING events was logged as
\* suppressed; for N > Q that is Q sends and N - Q suppression logs.
C2_PongBudget ==
  Idle =>
    /\ total["send"] = Min(args.pongs, ping_events)
    /\ total["log_no_pongs_left"] = ping_events - Min(args.pongs, ping_events)
    /\ (ping_events > args.pongs =>
          /\ total["send"] = args.pongs
          /\ total["log_no_pongs_left"] = ping_events - args.pongs)

\* More PING events than the budget (of at least 1) were handled, the last of
\* them suppressed.
C2_Witness ==
  /\ Idle
  /\ args.pongs >= 1
  /\ ping_events > args.pongs
  /\ last = "send_pongs"
  /\ Count(out, "log_no_pongs_left") >= 1
  /\ Count(out, "send") = 0
  /\ total["send"] = args.pongs

\* C3: under every interleaving of send_pings and send_pongs both reservoirs
\* stay >= 0, never grow from one state to the next, and a reservoir that is
\* 0 is never decremented.
C3_NonIncreasing ==
  /\ [](ppc.ping_reservoir >= 0 /\ ppc.pong_reservoir >= 0)
  /\ [][/\ ppc'.ping_reservoir <= ppc.ping_reservoir
        /\ ppc'.pong_reservoir <= ppc.pong_reservoir
        /\ (ppc.ping_reservoir = 0 => ppc'.ping_reservoir = 0)
        /\ (ppc.pong_reservoir = 0 => ppc'.pong_reservoir = 0)]_vars

\* Both budgets were positive, both are used up, and both handlers ran again.
C3_Witness ==
  /\ Idle
  /\ args.pings >= 1
  /\ args.pongs >= 1
  /\ ppc.ping_reservoir = 0
  /\ ppc.pong_reservoir = 0
  /\ invoked > args.pings
  /\ ping_events > args.pongs

\* C4: in both programs the startup system calls exactly one of listen and
\* connect: listen and never connect for a server, connect and never listen
\* for a client.
C4_ListenXorConnect ==
  /\ total["listen"] + total["connect"] <= 1
  /\ (args.is_server => total["connect"] = 0)
  /\ (~args.is_server => total["listen"] = 0)
  /\ (pc = "running" => total["listen"] + total["connect"] = 1)
  /\ (pc = "startup" => total["listen"] + total["connect"] = 0)

\* A server went through startup and its other systems ran afterwards.
C4_Witness ==
  /\ pc = "running"
  /\ args.is_server
  /\ last = "send_pongs"
  /\ total["listen"] = 1
  /\ total["connect"] = 0

\* The effects of a trace that are of one of the given kinds, in order.
OfKinds(tr, kinds) == SelectSeq(tr, LAMBDA e : e.kind \in kinds)

\* The handles the PONG sends of a trace are addressed to, in order.
SendTargets(tr) ==
  LET s == OfKinds(tr, {"send"}) IN [i \in 1..Len(s) |-> s[i].handle]

\* A Packet event whose payload decodes to exactly "PING".
IsPingEvent(e) == e.tag = "Packet" /\ from_utf8_lossy(e.packet) = STR_PING

\* The handles the PING events of a batch come from, in delivery order.
PingSources(batch) ==
  LET s == SelectSeq(batch, IsPingEvent) IN [i \in 1..Len(s) |-> s[i].handle]

\* Per event of a batch, the log line idle_timeout.rs writes on matching it.
ArmLogs(batch) ==
  [i \in 1..Len(batch) |->
     IF batch[i].tag = "Packet"
       THEN Effect("log_got_packet", batch[i].handle, from_utf8_lossy(batch[i].packet))
       ELSE Effect("log_other_event", batch[i].handle, <<>>)]

\* The answers a run gives to its PING events, in order ("send" or
\* "log_no_pongs_left").
Answers(tr) ==
  LET s == OfKinds(tr, {"send", "log_no_pongs_left"})
  IN  [i \in 1..Len(s) |-> s[i].kind]

\* A run of send_pongs on a batch answers the PING events in delivery order:
\* the first min(budget, number of PINGs) of them get the PONGs, the later
\* ones the suppression logs; every event is logged once, in delivery order.
InOrder(budget, batch, tr) ==
  LET src == PingSources(batch)
      n == Min(budget, Len(src))
  IN  /\ SendTargets(tr) = SubSeq(src, 1, n)
      /\ Answers(tr) = [i \in 1..Len(src) |->
                          IF i <= n THEN "send" ELSE "log_no_pongs_left"]
      /\ OfKinds(tr, {"log_got_packet", "log_other_event"}) = ArmLogs(batch)

\* C5 (as amended): send_pongs handles the events of a batch in delivery
\* order, without reordering or deduplication, so the earliest PING events
\* get the PONGs; for [Packet(A,PING), Packet(B,PING), Packet(A,X)] with pong
\* budget 1 exactly one PONG is sent, to A, B's PING is logged as suppressed,
\* and Packet(A,X) is logged by the packet line "Got packet on [A]: X" (not
\* by the "Other event" line) with no send.
C5_DeliveryOrder ==
  [][last' = "send_pongs" =>
       /\ InOrder(ppc.pong_reservoir, events', out')
       /\ (events' = ExampleBatch /\ ppc.pong_reservoir = 1 =>
             /\ SendTargets(out') = <<"A">>
             /\ Count(out', "log_no_pongs_left") = 1
             /\ out'[Len(out')] = Effect("log_got_packet", "A", <<88>>)
             /\ Count(out', "log_other_event") = 0)]_vars

\* C5 as stated: the same, with Packet(A,X) logged as an "other" event.
C5_Original ==
  [][last' = "send_pongs" =>
       /\ SendTargets(out') =
            SubSeq(PingSources(events'), 1,
                   Min(ppc.pong_reservoir, Len(PingSources(events'))))
       /\ (events' = ExampleBatch /\ ppc.pong_reservoir = 1 =>
             /\ SendTargets(out') = <<"A">>
             /\ Count(out', "log_no_pongs_left") = 1
             /\ out'[Len(out')] = Effect("log_other_event", "A", <<>>))]_vars

\* The example batch was handled with one PONG left: one send, to A, and one
\* suppression.
C5_Witness ==
  /\ Idle
  /\ last = "send_pongs"
  /\ events = ExampleBatch
  /\ ppc.pong_reservoir = 0
  /\ SendTargets(out) = <<"A">>
  /\ Count(out, "log_no_pongs_left") = 1

\* C6: at most P PING broadcasts and at most Q PONG send attempts are ever
\* made; when send_pings keeps being scheduled and PING packets keep arriving,
\* a running endpoint reaches a state where both budgets are 0 for good, and
\* once both are 0 it never broadcasts or sends again.
C6_Terminates ==
  /\ [](Idle => total["broadcast"] <= args.pings /\ total["send"] <= args.pongs)
  /\ ((Idle /\ pc = "running")
        ~> [](ppc.ping_reservoir = 0 /\ ppc.pong_reservoir = 0))
  /\ [][Idle /\ ppc.ping_reservoir = 0 /\ ppc.pong_reservoir = 0 =>
          /\ total'["broadcast"] = total["broadcast"]
          /\ total'["send"] = total["send"]]_vars

\* Both budgets were positive and are spent, and a PING that arrived
\* afterwards was not answered.
C6_Witness ==
  /\ Idle
  /\ args.pings >= 1
  /\ args.pongs >= 1
  /\ ppc.ping_reservoir = 0
  /\ ppc.pong_reservoir = 0
  /\ total["broadcast"] = args.pings
  /\ total["send"] = args.pongs
  /\ invoked > args.pings
  /\ last = "send_pongs"
  /\ PingEvents(events) >= 1
  /\ Count(out, "send") = 0

\* Number of PING events of a batch that come from peer h.
PingsFrom(batch, h) ==
  Cardinality({i \in 1..Len(batch) : IsPingEvent(batch[i]) /\ batch[i].handle = h})

\* Number of PONG sends of a trace addressed to peer h.
SendsTo(tr, h) ==
  Cardinality({i \in 1..Len(tr) : tr[i].kind = "send" /\ tr[i].handle = h})

\* C7: send_pongs counts and does not deduplicate: while the pong budget
\* covers the PING events of a batch, every one of them gets its own PONG send
\* to its peer and its own decrement; the same PING twice from one peer, with
\* a budget of at least 2, gives two sends to that peer and a budget lower by
\* exactly 2.
C7_NotIdempotent ==
  [][last' = "send_pongs" =>
       /\ (ppc.pong_reservoir >= PingEvents(events') =>
             /\ \A h \in Peers : SendsTo(out', h) = PingsFrom(events', h)
             /\ ppc'.pong_reservoir = ppc.pong_reservoir - PingEvents(events'))
       /\ (events' = TwiceBatch /\ ppc.pong_reservoir >= 2 =>
             /\ SendTargets(out') = <<"A", "A">>
             /\ ppc'.pong_reservoir = ppc.pong_reservoir - 2)]_vars

\* Peer A's PING arrived twice in one batch and was answered twice.
C7_Witness ==
  /\ Idle
  /\ last = "send_pongs"
  /\ events = TwiceBatch
  /\ SendTargets(out) = <<"A", "A">>
  /\ total["send"] = 2
  /\ ppc.pong_reservoir = args.pongs - 2

\* C8: a run of send_pings makes at most one broadcast and writes the "no
\* more pings" diagnostic exactly when it takes the ping budget from a
\* positive value to 0; over a run the diagnostic is written once, in the
\* P-th run (never for P = 0), and a run on an empty budget does nothing.
C8_DiagnosticOnce ==
  /\ [](Idle =>
          total["log_no_more_pings"] =
            IF args.pings > 0 /\ invoked >= args.pings THEN 1 ELSE 0)
  /\ [][invoked' = invoked + 1 =>
          /\ Count(out', "broadcast") <= 1
          /\ Count(out', "log_no_more_pings") =
               (IF ppc.ping_reservoir > 0 /\ ppc'.ping_reservoir = 0 THEN 1 ELSE 0)
          /\ (ppc.ping_reservoir = 0 => out' = <<>>)]_vars

\* The fourth run of send_pings on a budget of 3: three broadcasts and one
\* diagnostic so far, nothing in this run.
C8_Witness ==
  /\ Idle
  /\ args.pings = 3
  /\ invoked = 4
  /\ last = "send_pings"
  /\ out = <<>>
  /\ total["broadcast"] = 3
  /\ total["log_no_more_pings"] = 1

\* C9 (as amended): the exhaustion of the ping budget is logged once, in the
\* run that takes it to 0; the exhaustion of the pong budget is not logged
\* when it reaches 0 but once for every PING event handled while it is 0;
\* once a budget is 0 its action (broadcast, respectively send) is never
\* performed again.
C9_ExhaustionLogs ==
  /\ [](Idle =>
          /\ total["log_no_more_pings"] <= 1
          /\ total["log_no_pongs_left"] = Max(ping_events - args.pongs, 0))
  /\ [][Idle /\ invoked' = invoked + 1 =>
          (Count(out', "log_no_more_pings") >= 1
             <=> ppc.ping_reservoir > 0 /\ ppc'.ping_reservoir = 0)]_vars
  /\ [][last' = "send_pongs" =>
          Count(out', "log_no_pongs_left")
            = Max(PingEvents(events') - ppc.pong_reservoir, 0)]_vars
  /\ [][Idle /\ ppc.ping_reservoir = 0 =>
          ppc'.ping_reservoir = 0 /\ total'["broadcast"] = total["broadcast"]]_vars
  /\ [][Idle /\ ppc.pong_reservoir = 0 =>
          ppc'.pong_reservoir = 0 /\ total'["send"] = total["send"]]_vars

\* C9 as stated: each budget's exhaustion is logged once, in the step that
\* takes that budget to 0.
C9_Original ==
  /\ [](Idle => total["log_no_more_pings"] <= 1 /\ total["log_no_pongs_left"] <= 1)
  /\ [][Idle /\ invoked' = invoked + 1 =>
          (Count(out', "log_no_more_pings") >= 1
             <=> ppc.ping_reservoir > 0 /\ ppc'.ping_reservoir = 0)]_vars
  /\ [][last' = "send_pongs" =>
          (Count(out', "log_no_pongs_left") >= 1
             <=> ppc.pong_reservoir > 0 /\ ppc'.pong_reservoir = 0)]_vars

\* Both budgets were positive and are spent; the ping diagnostic was written
\* once and a PING handled on the empty pong budget was logged as suppressed.
C9_Witness ==
  /\ Idle
  /\ args.pings >= 1
  /\ args.pongs >= 1
  /\ ppc.ping_reservoir = 0
  /\ ppc.pong_reservoir = 0
  /\ total["log_no_more_pings"] = 1
  /\ total["log_no_pongs_left"] >= 1
  /\ last = "send_pongs"
  /\ Count(out, "log_no_pongs_left") >= 1

\* C10: in simple.rs a server never broadcasts; a broadcast is made only by
\* send_packets, for a client, at a clock value where the cadence test holds.
C10_ServerNeverBroadcasts ==
  /\ [](Simple /\ args.is_server =>
          total["broadcast"] = 0 /\ Count(out, "broadcast") = 0)
  /\ [][Simple /\ total'["broadcast"] # total["broadcast"] =>
          /\ ~args.is_server
          /\ cadence(time)
          /\ last' = "send_packets"
          /\ total'["broadcast"] = total["broadcast"] + 1]_vars

\* A server ran send_packets one second after startup, when the cadence test
\* holds, and has not broadcast.
C10_Witness ==
  /\ Simple
  /\ args.is_server
  /\ time = 60
  /\ cadence(time)
  /\ last = "send_packets"
  /\ "send_packets" \in ran
  /\ total["broadcast"] = 0

\* "PONG @ 0.016666666666666666" and "PONG @ 0.5", the answers 1/60 s and
\* half a second after startup.
PongAtFirstSixtieth ==
  <<80, 79, 78, 71, 32, 64, 32, 48, 46, 48, 49,
    54, 54, 54, 54, 54, 54, 54, 54, 54, 54, 54, 54, 54, 54, 54, 54>>
PongAtHalfSecond == <<80, 79, 78, 71, 32, 64, 32, 48, 46, 53>>

\* C11: in simple.rs every Packet event whose payload decodes to exactly
\* "PING" gets exactly one PONG send, addressed to the peer the packet came
\* from, in either role and however many arrive: the number of sends always
\* equals the number of PING events handled.
C11_EveryPingAnswered ==
  Simple =>
    /\ total["send"] = ping_events
    /\ (last = "handle_packets" =>
          /\ Count(out, "send") = PingEvents(events)
          /\ SendTargets(out) = PingSources(events)
          /\ ("handle_packets" \in ran =>
                \A i \in 1..Len(out) :
                  out[i].kind = "send" =>
                    /\ out[i].msg = PacketFrom(STR_PONG_AT \o format_f64(time))
                    /\ (time = 1 => out[i].msg = PongAtFirstSixtieth)
                    /\ (time = 30 => out[i].msg = PongAtHalfSecond)))

\* A server handled the same peer's PING twice in one batch, after more than
\* three earlier PINGs, and answered all of them.
C11_Witness ==
  /\ Simple
  /\ args.is_server
  /\ last = "handle_packets"
  /\ events = TwiceBatch
  /\ SendTargets(out) = <<"A", "A">>
  /\ ping_events >= 5
  /\ total["send"] = ping_events

\* The result line of every send of a trace directly follows it and names
\* the same peer.
SendsLogged(tr) ==
  \A i \in 1..Len(tr) :
    tr[i].kind = "send" =>
      /\ i < Len(tr)
      /\ tr[i + 1].kind \in {"log_sent_pong", "log_pong_send_error"}
      /\ tr[i + 1].handle = tr[i].handle

\* The Packet events of a batch, in order.
PacketEvents(batch) == SelectSeq(batch, LAMBDA e : e.tag = "Packet")

\* C12: in both programs a failed PONG send is logged and dropped: the send
\* is not tried again, the events after it in the batch are handled as
\* usual, the program stays in its running state and its systems can run
\* again afterwards.
C12_SendErrorRecoverable ==
  (last \in {"send_pongs", "handle_packets"}
   /\ Count(out, "log_pong_send_error") >= 1) =>
    /\ pc = "running"
    /\ SendsLogged(out)
    /\ Count(out, "log_sent_pong") + Count(out, "log_pong_send_error")
         = Count(out, "send")
    /\ Count(out, "send") <= PingEvents(events)
    /\ (Idle =>
          /\ SendTargets(out)
               = SubSeq(PingSources(events), 1, Count(out, "send"))
          /\ OfKinds(out, {"log_got_packet", "log_other_event"})
               = ArmLogs(events)
          /\ ENABLED send_pongs_run(<<>>, {})
          /\ (invoked < args.pings + Extra => ENABLED send_pings))
    /\ (Simple =>
          /\ SendTargets(out) = PingSources(events)
          /\ OfKinds(out, {"log_got_packet"}) = ArmLogs(PacketEvents(events))
          /\ ("send_packets" \notin ran => ENABLED send_packets)
          /\ (ran = Systems /\ frame < MaxFrames => ENABLED next_frame))

\* The PONG to A failed; B's PING, after it in the batch, was answered and
\* the last event of the batch was logged.
C12_Witness ==
  /\ Idle
  /\ last = "send_pongs"
  /\ events = ExampleBatch
  /\ Len(out) = 7
  /\ out[3] = Effect("log_pong_send_error", "A", <<>>)
  /\ out[6] = Effect("log_sent_pong", "B", <<>>)
  /\ out[7] = Effect("log_got_packet", "A", <<88>>)
  /\ pc = "running"

\* C13: in both programs and both roles, when find_my_ip_address() finds no
\* address the startup system panics with its diagnostic before it calls
\* listen or connect, and nothing runs afterwards: no listen, connect,
\* broadcast or send is ever made.
C13_NoAddressNoNetwork ==
  pc = "panicked" =>
    /\ last = "startup"
    /\ out = <<Effect("panic", NoHandle, <<>>)>>
    /\ \A k \in {"listen", "connect", "broadcast", "send"} : total[k] = 0
    /\ ~ENABLED Next

\* A client of simple.rs found no address.
C13_Witness ==
  /\ pc = "panicked"
  /\ Simple
  /\ ~args.is_server
  /\ Count(out, "panic") = 1

\* An event other than a Packet whose payload is the four bytes of "PING".
NotPing(e) == e.tag # "Packet" \/ e.packet # <<80, 73, 78, 71>>

\* The text the packet line shows for each payload of the model.
ShownText(p) ==
  IF p = PayloadX THEN <<88>>
  ELSE IF p = PayloadPingFF THEN <<80, 73, 78, 71, 65533>>
  ELSE IF p = PayloadPong THEN <<80, 79, 78, 71>>
  ELSE IF p = PayloadPingLower THEN <<112, 105, 110, 103>>
  ELSE IF p = PayloadPingX THEN <<80, 73, 78, 71, 88>>
  ELSE <<80, 73, 78, 71>>

\* A handler run on one event left the counter, the arguments and the call
\* counts as they were and made no send and no broadcast.
NothingButLogs ==
  /\ ppc' = ppc
  /\ args' = args
  /\ total' = total
  /\ Count(out', "send") = 0
  /\ Count(out', "broadcast") = 0

\* C14 (as amended): in both programs an event that is not a Packet with
\* payload "PING" (Connected, Disconnected, a packet "PONG", "ping", "PINGX",
\* ...) changes no state and causes no send or broadcast; idle_timeout.rs
\* logs every such event, simple.rs logs the packets among them and skips
\* Connected and Disconnected without a log line.
C14_OtherEventsOnlyLogged ==
  [][(last' \in {"send_pongs", "handle_packets"}
      /\ Len(events') = 1 /\ NotPing(events'[1])) =>
       LET e == events'[1]
           packet_line ==
             <<Effect("log_got_packet", e.handle, ShownText(e.packet))>>
       IN  /\ NothingButLogs
           /\ (e.tag = "Packet" => out' = packet_line)
           /\ (e.tag # "Packet" /\ Idle =>
                 out' = <<Effect("log_other_event", e.handle, <<>>)>>)
           /\ (e.tag # "Packet" /\ Simple => out' = <<>>)]_vars

\* C14 as stated: every such event is logged, in both programs.
C14_Original ==
  [][(last' \in {"send_pongs", "handle_packets"}
      /\ Len(events') = 1 /\ NotPing(events'[1])) =>
       /\ NothingButLogs
       /\ Len(out') >= 1
       /\ \A i \in 1..Len(out') :
            out'[i].kind \in {"log_got_packet", "log_other_event"}]_vars

\* simple.rs handled a Disconnected event: no log line, no call.
C14_Witness ==
  /\ Simple
  /\ last = "handle_packets"
  /\ events = <<Disconnected("A")>>
  /\ out = <<>>
  /\ total["send"] = 0

\* C15: in idle_timeout.rs a PING handled with pong_reservoir > 0 takes
\* exactly 1 from the reservoir whether its send succeeds or fails; a failed
\* send gives nothing back, so the reservoir always equals the initial budget
\* minus the number of send attempts.
C15_BudgetCountsAttempts ==
  Idle =>
    /\ ppc.pong_reservoir = args.pongs - total["send"]
    /\ (last = "send_pongs" =>
          Count(out, "send")
            = Count(out, "log_sent_pong") + Count(out, "log_pong_send_error"))

\* Two PINGs were handled in one run, the first send failed and the second
\* succeeded; the whole budget is spent.
C15_Witness ==
  /\ Idle
  /\ last = "send_pongs"
  /\ Count(out, "log_pong_send_error") = 1
  /\ Count(out, "log_sent_pong") = 1
  /\ args.pongs >= 2
  /\ total["send"] = args.pongs
  /\ ppc.pong_reservoir = 0

\* C16: in both programs a PONG only ever leaves through send, addressed to
\* the peer whose PING packet event is being answered, and a PING only ever
\* leaves through broadcast: every send carries a PONG text and directly
\* follows the packet line of a PING from the peer it is addressed to, and
\* every broadcast carries "PING".
C16_PongToOriginator ==
  /\ \A i \in 1..Len(out) :
       /\ out[i].kind = "broadcast" =>
            /\ last \in {"send_pings", "send_packets"}
            /\ out[i].msg = <<80, 73, 78, 71>>
       /\ out[i].kind = "send" =>
            /\ last \in {"send_pongs", "handle_packets"}
            /\ Len(out[i].msg) >= 4
            /\ SubSeq(out[i].msg, 1, 4) = <<80, 79, 78, 71>>
            /\ out[i].handle \in Peers
            /\ i > 1
            /\ out[i - 1]
                 = Effect("log_got_packet", out[i].handle, <<80, 73, 78, 71>>)
  /\ (last \in {"send_pongs", "handle_packets"} =>
        /\ Count(out, "broadcast") = 0
        /\ SendTargets(out)
             = SubSeq(PingSources(events), 1, Count(out, "send")))
  /\ (last \in {"send_pings", "send_packets"} => Count(out, "send") = 0)

\* simple.rs answered the PINGs of two peers in one batch, each to its
\* sender.
C16_Witness ==
  /\ Simple
  /\ last = "handle_packets"
  /\ events = ExampleBatch
  /\ SendTargets(out) = <<"A", "B">>
  /\ Count(out, "broadcast") = 0

\* C17: in idle_timeout.rs the two budgets are independent: a run of
\* send_pings leaves pong_reservoir as it was, a run of send_pongs leaves
\* ping_reservoir as it was, on every state and batch; what a run does
\* depends on its own reservoir only (an empty pong reservoir does not stop
\* the broadcasts, an empty ping reservoir does not stop the PONGs), and
\* neither changes the parsed arguments.
C17_BudgetsIndependent ==
  [][Idle /\ pc = "running" =>
       /\ args' = args
       /\ example' = example
       /\ (invoked' # invoked =>
             /\ last' = "send_pings"
             /\ ppc'.pong_reservoir = ppc.pong_reservoir
             /\ Count(out', "broadcast")
                  = (IF ppc.ping_reservoir > 0 THEN 1 ELSE 0))
       /\ (invoked' = invoked =>
             /\ last' = "send_pongs"
             /\ ppc'.ping_reservoir = ppc.ping_reservoir
             /\ Count(out', "send")
                  = Min(ppc.pong_reservoir, PingEvents(events')))]_vars

\* With the ping budget used up and send_pings run once more, a PING was
\* still answered; the pong budget is now used up too.
C17_Witness ==
  /\ Idle
  /\ args.pings >= 1
  /\ args.pongs >= 1
  /\ ppc.ping_reservoir = 0
  /\ invoked > args.pings
  /\ last = "send_pongs"
  /\ Count(out, "send") >= 1
  /\ ppc.pong_reservoir = 0

\* C18: in idle_timeout.rs the PING emission does not depend on the role:
\* the server (endpoint 1) and the client (endpoint 2), started with the same
\* ping budget and after the same number of runs of send_pings, have made
\* the same number of broadcasts and hold the same ping_reservoir; the
\* server, too, broadcasts on every run while its reservoir is above 0.
C18_RoleIndependent ==
  /\ ends[1].is_server /\ ~ends[2].is_server
  /\ (ends[1].pings = ends[2].pings /\ ends[1].ticks = ends[2].ticks =>
        /\ ends[1].broadcasts = ends[2].broadcasts
        /\ ends[1].ppc.ping_reservoir = ends[2].ppc.ping_reservoir)
  /\ \A i \in Endpoints :
       /\ ends[i].broadcasts = Min(ends[i].ticks, ends[i].pings)
       /\ ends[i].ppc.ping_reservoir = ends[i].pings - ends[i].broadcasts
  /\ (plast.sys = "send_pings" /\ plast.who = 1
      /\ ends[1].ticks <= ends[1].pings =>
        Count(plast.out, "broadcast") = 1)

\* Server and client started with the same budget of 1; both ran send_pings
\* once, the server last, and both made one broadcast.
C18_Witness ==
  /\ ends[1].pings = 1
  /\ ends[2].pings = 1
  /\ ends[1].ticks = 1
  /\ ends[2].ticks = 1
  /\ plast.sys = "send_pings"
  /\ plast.who = 1
  /\ Count(plast.out, "broadcast") = 1
  /\ ends[1].broadcasts = 1
  /\ ends[2].broadcasts = 1

\* Number of packets in flight, in both directions.
InFlight == wire[1][PayloadPing] + wire[1][PayloadPong]
            + wire[2][PayloadPing] + wire[2][PayloadPong]

\* Nothing is in flight and no endpoint has a PING left to broadcast.
Quiet ==
  /\ InFlight = 0
  /\ \A i \in Endpoints : ends[i].ppc.ping_reservoir = 0

\* The PING packets among the events of a batch, by their bytes.
PingPackets(batch) ==
  Cardinality({k \in 1..Len(batch) : batch[k].packet = <<80, 73, 78, 71>>})

\* C19: two connected endpoints of idle_timeout.rs with budgets P1,Q1 and
\* P2,Q2, over a transport that may lose or delay packets but neither
\* duplicates nor invents them: a received PONG triggers no send (no echo
\* loop); an endpoint never sends more PONGs than min(its pong budget, the
\* PINGs the other endpoint broadcast); at most P1+P2+Q1+Q2 packets are ever
\* put on the wire; and with fair scheduling the two reach a state with
\* nothing in flight after which nothing is sent again.
C19_NoEchoQuiescence ==
  /\ [](\A i \in Endpoints :
          /\ ends[i].sends <= Min(ends[i].pongs, ends[Other(i)].broadcasts)
          /\ ends[i].broadcasts <= ends[i].pings
          /\ ends[i].put <= ends[i].broadcasts + ends[i].sends)
  /\ [](ends[1].put + ends[2].put
          <= ends[1].pings + ends[2].pings + ends[1].pongs + ends[2].pongs)
  /\ [](plast.sys = "send_pongs" =>
          /\ Count(plast.out, "send") <= PingPackets(plast.batch)
          /\ Count(plast.out, "broadcast") = 0)
  /\ [][plast'.sys = "send_pongs" /\ PingPackets(plast'.batch) = 0 =>
          /\ wire'[Other(plast'.who)] = wire[Other(plast'.who)]
          /\ \A i \in Endpoints :
               /\ ends'[i].put = ends[i].put
               /\ ends'[i].ppc = ends[i].ppc]_vars
  /\ [][Quiet =>
          /\ Quiet'
          /\ \A i \in Endpoints : ends'[i].put = ends[i].put]_vars
  /\ <>[]Quiet

\* Each endpoint answered the other's PING; the last PONG has arrived and
\* was only logged, and nothing is in flight.
C19_Witness ==
  /\ Quiet
  /\ ends[1].sends = 1
  /\ ends[2].sends = 1
  /\ ends[1].put + ends[2].put = 4
  /\ plast.sys = "send_pongs"
  /\ plast.batch = <<Packet(PeerHandle, PayloadPong)>>
  /\ plast.out = <<Effect("log_got_packet", PeerHandle, <<80, 79, 78, 71>>)>>

====
